---- MODULE Spec2Model ----
(***************************************************************************)
(* cab.py: a toggle-style background audio recorder.  One invocation of    *)
(* the script either starts a capture process (parec) and writes the       *)
(* session record _info.json, or, when pgrep finds a capture process,      *)
(* signals it, converts _raw_audio.raw with ffmpeg and removes both files. *)
(*                                                                         *)
(* The state is what survives between invocations (the two files, the      *)
(* running capture processes, the .env file) plus, for every invocation    *)
(* that is in progress, its position in main() and its module globals.     *)
(***************************************************************************)
EXTENDS Integers, Sequences, FiniteSets, TLC

\* Number of process identifiers the operating system hands out.
NumPids == 2

\* Identifiers the operating system may give to a launched process.
PidPool == {4240 + k : k \in 1..NumPids}

\* Invocations of the script that may be in progress at the same time.
Invocations == {"A", "B"}

----------------------------------------------------------------------------
(* Python values.  Every value carries its type, so that str(), Path() and *)
(* truth tests act on it as Python does.                                   *)

None == [t |-> "none", v |-> ""]
Str(s) == [t |-> "str", v |-> s]
PathObj(s) == [t |-> "path", v |-> s]
Bool(b) == [t |-> "bool", v |-> IF b THEN "True" ELSE "False"]
IntVal(n) == [t |-> "int", v |-> ToString(n)]

\* Python's truth value of x, as used by `not x` and `x and y`.
Truthy(x) ==
    CASE x.t = "none" -> FALSE
      [] x.t = "bool" -> x.v = "True"
      [] x.t = "int"  -> x.v # "0"
      [] OTHER        -> x.v # ""

\* str(x)
str(x) == IF x.t = "none" THEN Str("None") ELSE Str(x.v)

\* Path(x) is defined for strings and paths only; Path(None) raises TypeError.
PathRaises(x) == x.t \notin {"str", "path"}
Path(x) == PathObj(IF x.v = "" THEN "." ELSE x.v)

\* Path.home()
Home == PathObj("/home/user")

\* The file name main() generates from the clock.
TimestampName == Str("audio_YYYY-MM-DD_HH-MM-SS.mp3")

\* Path(d) / Path(n) for a relative n: the file n in the directory d.
NoName == [dir |-> "", name |-> ""]
JoinPath(d, n) == [dir |-> d.v, name |-> n.v]

----------------------------------------------------------------------------
(* The command line: parser.parse_args().                                  *)

CommandLines ==
    [file_name   : {None, Str("a.mp3")},
     destination : {None, Str("d1")},
     format      : {Str("mp3"), Str("wav")},
     env         : {Bool(FALSE), Bool(TRUE)},
     input       : {None, Str("mic0")}]

\* The contents of the .env file, as dotenv_values() lists them.
EmptyEnv == << >>
SampleEnv ==
    << <<"FILE_NAME", Str("e.mp3")>>,
       <<"DESTINATION", Str("envdir")>>,
       <<"FORMAT", Str("ogg")>>,
       <<"COLOR", Str("red")>>,
       <<"PID", Str("7")>> >>
DotenvFiles == {EmptyEnv, SampleEnv}

\* str.lower() on the keys that occur.
Lower(k) ==
    CASE k = "FILE_NAME"   -> "file_name"
      [] k = "DESTINATION" -> "destination"
      [] k = "FORMAT"      -> "format"
      [] k = "COLOR"       -> "color"
      [] k = "PID"         -> "pid"
      [] OTHER             -> k

\* add_argument without arg.lower(): the key is compared as it is written.
add_argument_CaseSensitive(st, arg, value, expected_keys) ==
    LET s1 == IF arg \in expected_keys THEN [st EXCEPT !.args[arg] = value] ELSE st
    IN  IF arg = "pid" THEN [s1 EXCEPT !.PID = value] ELSE s1

\* add_argument: st holds the module globals args and PID.
add_argument(st, arg, value, expected_keys) ==
    LET a  == Lower(arg)
        s1 == IF a \in expected_keys THEN [st EXCEPT !.args[a] = value] ELSE st
    IN  IF a = "pid" THEN [s1 EXCEPT !.PID = value] ELSE s1

RECURSIVE ApplyItems(_, _, _)
ApplyItems(st, items, expected_keys) ==
    IF items = << >> THEN st
    ELSE ApplyItems(add_argument(st, items[1][1], items[1][2], expected_keys),
                    Tail(items), expected_keys)

----------------------------------------------------------------------------
(* The session record.  The file INFO_FILE is absent ({}) or holds one     *)
(* text, which is a JSON object or is not parsable.                        *)

CorruptRecord ==
    [json |-> "corrupt", pid |-> 0, file_name |-> None,
     destination |-> None, format |-> None]

\* save_session_info with the module global PID (still None, written as 0
\* here) saved in place of its argument.
SessionJson_GlobalPid(pid_number, a) ==
    [json |-> "ok", pid |-> 0, file_name |-> a.file_name,
     destination |-> str(a.destination), format |-> a.format]

\* save_session_info with the file name and the destination transposed.
SessionJson_Transposed(pid_number, a) ==
    [json |-> "ok", pid |-> pid_number, file_name |-> str(a.destination),
     destination |-> a.file_name, format |-> a.format]

\* save_session_info: the text json.dump writes.
SessionJson(pid_number, a) ==
    [json |-> "ok", pid |-> pid_number, file_name |-> a.file_name,
     destination |-> str(a.destination), format |-> a.format]

\* load_session_info raises json.JSONDecodeError on an unparsable file.
LoadRaises(file) == \E r \in file : r.json # "ok"

\* (load_session_info() or {}).items()
SessionItems(file) ==
    IF file = {} THEN << >>
    ELSE LET r == CHOOSE r \in file : TRUE
         IN  << <<"pid", IntVal(r.pid)>>,
                <<"file_name", r.file_name>>,
                <<"destination", r.destination>>,
                <<"format", r.format>> >>

\* parse_args
ParseArgsRaises(st, is_env, file) ==
    ~(is_env /\ Truthy(st.args.env)) /\ LoadRaises(file)
parse_args(st, is_env, envfile, file) ==
    IF is_env /\ Truthy(st.args.env)
    THEN ApplyItems(st, envfile, DOMAIN st.args)
    ELSE ApplyItems(st, SessionItems(file), DOMAIN st.args)

----------------------------------------------------------------------------
(* The process probe: pgrep prints one identifier per line, in increasing  *)
(* order; a string is a sequence of characters, the digits and Newline.    *)

Newline == 10

RECURSIVE Digits(_)
Digits(n) == IF n < 10 THEN <<n>> ELSE Append(Digits(n \div 10), n % 10)

RECURSIVE PgrepOutput(_)
PgrepOutput(ps) ==
    IF ps = {} THEN << >>
    ELSE LET m == CHOOSE p \in ps : \A q \in ps : p <= q
         IN  Digits(m) \o <<Newline>> \o PgrepOutput(ps \ {m})

\* check_process_exists with a pattern that matches no process.
check_process_exists_NoMatch(ps) == << >>

\* check_process_exists: the output with every newline removed.
check_process_exists(ps) ==
    SelectSeq(PgrepOutput(ps), LAMBDA c : c # Newline)

\* int(s) for a string of digits
RECURSIVE int(_)
int(s) ==
    IF s = << >> THEN 0
    ELSE 10 * int(SubSeq(s, 1, Len(s) - 1)) + s[Len(s)]

----------------------------------------------------------------------------
(* clean_session on the two files: os.remove(RAW_FILE_NAME) raises when    *)
(* the file is absent, and the except clause then skips the second remove. *)

clean_session(raw, file) ==
    IF raw
    THEN [raw |-> FALSE, info |-> {}, warned |-> file = {}]
    ELSE [raw |-> FALSE, info |-> file, warned |-> TRUE]

----------------------------------------------------------------------------
VARIABLES
    raw_file,      \* TRUE iff RAW_FILE_NAME exists
    info_file,     \* INFO_FILE: {} when absent, else {its content}
    procs,         \* identifiers of the running capture processes
    dotenv,        \* the .env file
    pc,            \* position of each invocation in the script
    cli,           \* the command line each invocation was given
    args,          \* the module global args of each invocation
    PID,           \* the module global PID of each invocation
    pid,           \* main's pid: the probe's answer
    pid_number,    \* main's pid_number: what start_recording returned (0: unset)
    new_name,      \* main's new_name
    branch,        \* the branch of main taken: "none", "start" or "stop"
    last,          \* the branch the invocation before this one took
    saved_args,    \* the args the present record was saved from ({}: no record)
    overlapped,    \* TRUE once an invocation was run while another was running
    err,           \* the exception the invocation ended with ("" for none)
    notifications, \* what the invocation sent to notify-send
    log,           \* what the invocation logged
    signalled,     \* identifiers the invocation passed to os.kill
    converted      \* output paths the invocation passed to ffmpeg

disk == <<raw_file, info_file>>
globals == <<args, PID>>
locals == <<pid, pid_number, new_name>>
observed == <<notifications, log, signalled, converted>>
vars == <<raw_file, info_file, procs, dotenv, pc, cli, args, PID, pid,
          pid_number, new_name, branch, last, saved_args, overlapped, err,
          notifications, log, signalled, converted>>

NoFlags ==
    [file_name |-> None, destination |-> None, format |-> Str("mp3"),
     env |-> Bool(FALSE), input |-> None]

Running(i) == pc[i] \notin {"idle", "done", "crashed"}
Ended(i) == pc[i] \in {"done", "crashed"}

Init ==
    /\ raw_file = FALSE
    /\ info_file = {}
    /\ procs = {}
    /\ dotenv \in DotenvFiles
    /\ pc = [i \in Invocations |-> "idle"]
    /\ cli = [i \in Invocations |-> NoFlags]
    /\ args = cli
    /\ PID = [i \in Invocations |-> None]
    /\ pid = [i \in Invocations |-> << >>]
    /\ pid_number = [i \in Invocations |-> 0]
    /\ new_name = [i \in Invocations |-> NoName]
    /\ branch = [i \in Invocations |-> "none"]
    /\ last = [i \in Invocations |-> "stop"]
    /\ saved_args = {}
    /\ overlapped = FALSE
    /\ err = [i \in Invocations |-> ""]
    /\ notifications = [i \in Invocations |-> << >>]
    /\ log = [i \in Invocations |-> {}]
    /\ signalled = [i \in Invocations |-> {}]
    /\ converted = [i \in Invocations |-> {}]

Goto(i, l) == pc' = [pc EXCEPT ![i] = l]
Raise(i, e) ==
    /\ pc' = [pc EXCEPT ![i] = "crashed"]
    /\ err' = [err EXCEPT ![i] = e]

Notify(i, title, msg) ==
    notifications' = [notifications EXCEPT ![i] = Append(@, <<title, msg>>)]
Log(i, entries) == log' = [log EXCEPT ![i] = @ \cup entries]

----------------------------------------------------------------------------
(* One action per step of the script.                                      *)

\* The script is run: the module is loaded and the command line parsed.
InvokeWith(i, lines) ==
    /\ ~Running(i)
    /\ \E c \in lines :
         /\ cli' = [cli EXCEPT ![i] = c]
         /\ args' = [args EXCEPT ![i] = c]
    /\ PID' = [PID EXCEPT ![i] = None]
    /\ pid' = [pid EXCEPT ![i] = << >>]
    /\ pid_number' = [pid_number EXCEPT ![i] = 0]
    /\ new_name' = [new_name EXCEPT ![i] = NoName]
    /\ last' = [last EXCEPT ![i] = IF branch[i] = "none" THEN @ ELSE branch[i]]
    /\ branch' = [branch EXCEPT ![i] = "none"]
    /\ err' = [err EXCEPT ![i] = ""]
    /\ notifications' = [notifications EXCEPT ![i] = << >>]
    /\ log' = [log EXCEPT ![i] = {}]
    /\ signalled' = [signalled EXCEPT ![i] = {}]
    /\ converted' = [converted EXCEPT ![i] = {}]
    /\ overlapped' = (overlapped \/ \E j \in Invocations \ {i} : Running(j))
    /\ Goto(i, "parse_env")
    /\ UNCHANGED <<disk, procs, dotenv, saved_args>>

Invoke(i) == InvokeWith(i, CommandLines)

\* main, line 174: parse_args(".env", True).
ParseEnv(i) ==
    /\ pc[i] = "parse_env"
    /\ LET st == [args |-> args[i], PID |-> PID[i]]
       IN  IF ParseArgsRaises(st, TRUE, info_file)
           THEN /\ Raise(i, "JSONDecodeError")
                /\ UNCHANGED globals
           ELSE LET st2 == parse_args(st, TRUE, dotenv, info_file)
                IN  /\ args' = [args EXCEPT ![i] = st2.args]
                    /\ PID' = [PID EXCEPT ![i] = st2.PID]
                    /\ Goto(i, "probe")
                    /\ UNCHANGED err
    /\ UNCHANGED <<disk, procs, dotenv, overlapped, cli, locals, branch, last, saved_args, observed>>

\* main, lines 175-176 and 186: the probe and the choice of the branch.
Probe(i) ==
    /\ pc[i] = "probe"
    /\ LET out == check_process_exists(procs)
       IN  /\ pid' = [pid EXCEPT ![i] = out]
           /\ branch' = [branch EXCEPT ![i] = IF out = << >> THEN "start" ELSE "stop"]
           /\ Goto(i, IF out = << >> THEN "start_recording" ELSE "parse_info")
    /\ UNCHANGED <<disk, procs, dotenv, overlapped, cli, globals, pid_number, new_name,
                   last, saved_args, err, observed>>

\* main, lines 177-181: the defaults of the start branch.
StartDefaults(a) ==
    LET a1 == IF ~Truthy(a.file_name) THEN [a EXCEPT !.file_name = TimestampName] ELSE a
    IN  IF ~Truthy(a1.destination) THEN [a1 EXCEPT !.destination = Home] ELSE a1

\* main, lines 177-182, with start_recording: the raw file is opened for
\* writing, parec is launched on it, and the notification is sent.
\* Popen raises TypeError for an input device of None and FileNotFoundError
\* when the program cannot be found.
StartRecording(i) ==
    /\ pc[i] = "start_recording"
    /\ args' = [args EXCEPT ![i] = StartDefaults(@)]
    /\ raw_file' = TRUE
    /\ \E parec_found \in BOOLEAN, notify_found \in BOOLEAN, p \in PidPool \ procs :
         IF args[i].input.t = "none"
         THEN /\ Raise(i, "TypeError")
              /\ UNCHANGED <<procs, pid_number, notifications>>
         ELSE IF ~parec_found
         THEN /\ Raise(i, "FileNotFoundError: parec")
              /\ UNCHANGED <<procs, pid_number, notifications>>
         ELSE /\ procs' = procs \cup {p}
              /\ IF ~notify_found
                 THEN /\ Raise(i, "FileNotFoundError: notify-send")
                      /\ UNCHANGED <<pid_number, notifications>>
                 ELSE /\ Notify(i, "Recording Started", "Capturing audio...")
                      /\ pid_number' = [pid_number EXCEPT ![i] = p]
                      /\ Goto(i, "save")
                      /\ UNCHANGED err
    /\ UNCHANGED <<info_file, dotenv, overlapped, cli, PID, pid, new_name, branch, last, saved_args,
                   log, signalled, converted>>

\* main, line 184: save_session_info.  open() may fail and leave the file as
\* it was; a write that fails leaves the truncated file behind.
SaveSession(i) ==
    /\ pc[i] = "save"
    /\ \E outcome \in {"saved", "open_fails", "write_fails"} :
         CASE outcome = "saved" ->
                /\ info_file' = {SessionJson(pid_number[i], args[i])}
                /\ saved_args' = {[k \in {"file_name", "destination", "format"}
                                       |-> args[i][k]]}
                /\ Goto(i, "done")
                /\ UNCHANGED err
           [] outcome = "open_fails" ->
                /\ Raise(i, "OSError")
                /\ UNCHANGED <<info_file, saved_args>>
           [] outcome = "write_fails" ->
                /\ info_file' = {CorruptRecord}
                /\ saved_args' = {}
                /\ Raise(i, "OSError")
    /\ UNCHANGED <<raw_file, procs, dotenv, overlapped, cli, globals, locals, branch, last,
                   observed>>

\* main, line 187: parse_args(INFO_FILE).
ParseInfo(i) ==
    /\ pc[i] = "parse_info"
    /\ LET st == [args |-> args[i], PID |-> PID[i]]
       IN  IF ParseArgsRaises(st, FALSE, info_file)
           THEN /\ Raise(i, "JSONDecodeError")
                /\ UNCHANGED globals
           ELSE LET st2 == parse_args(st, FALSE, dotenv, info_file)
                IN  /\ args' = [args EXCEPT ![i] = st2.args]
                    /\ PID' = [PID EXCEPT ![i] = st2.PID]
                    /\ Goto(i, "stop_recording")
                    /\ UNCHANGED err
    /\ UNCHANGED <<disk, procs, dotenv, overlapped, cli, locals, branch, last, saved_args, observed>>

\* main, line 189: stop_recording(int(pid)).  os.kill ends the process, or
\* raises ProcessLookupError, which is caught and logged.
StopRecording(i) ==
    /\ pc[i] = "stop_recording"
    /\ LET n == int(pid[i])
       IN  /\ signalled' = [signalled EXCEPT ![i] = @ \cup {n}]
           /\ procs' = procs \ {n}
           /\ Log(i, IF n \in procs THEN {<<"info", "Recording stopped">>}
                                     ELSE {<<"error", "Process not found">>})
    /\ Goto(i, "convert")
    /\ UNCHANGED <<disk, dotenv, overlapped, cli, globals, locals, branch, last, saved_args, err,
                   notifications, converted>>

\* convert_audio that launches ffmpeg without waiting for it to exit: main
\* goes on to clean_session at once.
ConvertAudio_Detached(i) ==
    /\ pc[i] = "convert"
    /\ ~PathRaises(args[i].destination) /\ ~PathRaises(args[i].file_name)
    /\ LET name == JoinPath(Path(args[i].destination), Path(args[i].file_name))
           c == clean_session(raw_file, info_file)
       IN  /\ new_name' = [new_name EXCEPT ![i] = name]
           /\ converted' = [converted EXCEPT ![i] = @ \cup {name}]
           /\ raw_file' = c.raw
           /\ info_file' = c.info
           /\ saved_args' = IF c.info = {} THEN {} ELSE saved_args
    /\ Goto(i, "done")
    /\ UNCHANGED <<procs, dotenv, overlapped, cli, globals, pid, pid_number, branch,
                   last, err, notifications, log, signalled>>

\* main, lines 190-192: the output path is built and ffmpeg is run on it.
\* Path(None) raises TypeError; subprocess.run raises FileNotFoundError when
\* ffmpeg cannot be found.
ConvertAudio(i) ==
    /\ pc[i] = "convert"
    /\ \E ffmpeg_found \in BOOLEAN :
         IF PathRaises(args[i].destination) \/ PathRaises(args[i].file_name)
         THEN /\ Raise(i, "TypeError")
              /\ UNCHANGED <<new_name, converted>>
         ELSE LET name == JoinPath(Path(args[i].destination), Path(args[i].file_name))
              IN  /\ new_name' = [new_name EXCEPT ![i] = name]
                  /\ IF ffmpeg_found
                     THEN /\ converted' = [converted EXCEPT ![i] = @ \cup {name}]
                          /\ Goto(i, "ffmpeg")
                          /\ UNCHANGED err
                     ELSE /\ Raise(i, "FileNotFoundError: ffmpeg")
                          /\ UNCHANGED converted
    /\ UNCHANGED <<disk, procs, dotenv, overlapped, cli, globals, pid, pid_number, branch,
                   last, saved_args, notifications, log, signalled>>

\* main, lines 192-199: ffmpeg exits (non-zero at least when it has no input
\* file), the outcome is notified, and clean_session removes the files.
FinishConversion(i) ==
    /\ pc[i] = "ffmpeg"
    /\ \E status \in {"zero", "nonzero"}, notify_found \in BOOLEAN :
         /\ status = "zero" => raw_file
         /\ IF ~notify_found
            THEN /\ Raise(i, "FileNotFoundError: notify-send")
                 /\ Log(i, IF status = "zero" THEN {}
                           ELSE {<<"error", "Failed to convert audio">>})
                 /\ UNCHANGED <<disk, saved_args, notifications>>
            ELSE LET c == clean_session(raw_file, info_file)
                 IN  /\ Notify(i, "Recording stopped",
                               IF status = "zero" THEN "Audio saved to"
                               ELSE "Failed to convert audio")
                     /\ Log(i, (IF status = "zero" THEN {}
                                ELSE {<<"error", "Failed to convert audio">>})
                               \cup (IF c.warned
                                     THEN {<<"warning", "Failed to clean session">>}
                                     ELSE {}))
                     /\ raw_file' = c.raw
                     /\ info_file' = c.info
                     /\ saved_args' = IF c.info = {} THEN {} ELSE saved_args
                     /\ Goto(i, "done")
                     /\ UNCHANGED err
    /\ UNCHANGED <<procs, dotenv, overlapped, cli, globals, locals, branch, last,
                   signalled, converted>>

\* A capture process ends by itself (its device goes away, it is killed by
\* hand): the script launches it detached and never waits for it.
CaptureExits ==
    /\ \E p \in procs : procs' = procs \ {p}
    /\ UNCHANGED <<disk, dotenv, overlapped, pc, cli, globals, locals, branch, last, saved_args, err,
                   observed>>

Step(i) ==
    \/ ParseEnv(i)
    \/ Probe(i)
    \/ StartRecording(i)
    \/ SaveSession(i)
    \/ ParseInfo(i)
    \/ StopRecording(i)
    \/ ConvertAudio(i)
    \/ FinishConversion(i)

\* Invocations made one at a time, as the toggle is meant to be used.
Next ==
    \/ Invoke("A")
    \/ Step("A")
    \/ CaptureExits

Spec == Init /\ [][Next]_vars

\* Invocations that may overlap, each run from the same key binding, with
\* the input device as its only flag.
BoundCommandLines ==
    {c \in CommandLines : /\ c.file_name = None
                          /\ c.destination = None
                          /\ c.format = Str("mp3")
                          /\ c.env = Bool(FALSE)
                          /\ c.input # None}

InvokeBound(i) == InvokeWith(i, BoundCommandLines)

NextOverlap ==
    \/ \E i \in Invocations : InvokeBound(i) \/ Step(i)
    \/ CaptureExits

InitOverlap == Init /\ dotenv = EmptyEnv

SpecOverlap == InitOverlap /\ [][NextOverlap]_vars

----------------------------------------------------------------------------
(* Properties.  Under Spec the invocations are made one at a time, in the  *)
(* slot "A".                                                               *)

StopFailureMessage == <<"Recording stopped", "Failed to convert audio">>
StopSavedMessage == <<"Recording stopped", "Audio saved to">>
StartMessage == <<"Recording Started", "Capturing audio...">>
ConversionError == <<"error", "Failed to convert audio">>

\* C1: an invocation that took the stop branch ends, whatever failed on the
\* way, with the session record and the raw buffer removed.
C1_StopPathAlwaysCleans ==
    (Ended("A") /\ branch["A"] = "stop") => (info_file = {} /\ ~raw_file)

\* C2: a stop invocation in which ffmpeg ran and exited, with status zero or
\* not, ends with the session record and the raw buffer removed; when the
\* status is not zero (the conversion error is logged) the one notification
\* sent is the failure message, and otherwise it is the "Audio saved" message.
C2_StopAfterEncoderExitCleans ==
    (Ended("A") /\ converted["A"] # {}) =>
        /\ info_file = {}
        /\ ~raw_file
        /\ notifications["A"] =
               IF ConversionError \in log["A"] THEN <<StopFailureMessage>>
               ELSE <<StopSavedMessage>>

\* C3: an invocation that completed the start branch leaves exactly one
\* parsable session record, whose pid is the identifier start_recording
\* returned for the process it launched, and has sent "Recording Started".
C3_StartSavesLaunchedPid ==
    (pc["A"] = "done" /\ branch["A"] = "start") =>
        /\ Cardinality(info_file) = 1
        /\ \A r \in info_file : r.json = "ok" /\ r.pid = pid_number["A"]
        /\ pid_number["A"] \in PidPool
        /\ notifications["A"] = <<StartMessage>>

C3_Witness ==
    /\ pc["A"] = "done"
    /\ branch["A"] = "start"
    /\ info_file # {}
    /\ pid_number["A"] \in procs

\* C4: made one at a time, the invocations alternate: a stop invocation ends
\* with no session record and no capture process, the invocation after a
\* stop takes the start branch, and an invocation that took the start branch
\* has run nothing of the stop sequence.
C4_Alternation ==
    /\ (Ended("A") /\ branch["A"] = "stop") => (info_file = {} /\ procs = {})
    /\ (last["A"] = "stop" /\ branch["A"] # "none") => branch["A"] = "start"
    /\ branch["A"] = "start" => (signalled["A"] = {} /\ converted["A"] = {})

\* C5: a stop invocation that could apply no session record (PID is set from
\* the record's pid key whenever a record is applied) has signalled the
\* probed process, has built an output path for the conversion from defaults,
\* and ends with the record and the raw buffer removed.
C5_StopWithoutRecord ==
    (Ended("A") /\ branch["A"] = "stop" /\ PID["A"].t # "int") =>
        /\ signalled["A"] # {}
        /\ new_name["A"] # NoName
        /\ info_file = {}
        /\ ~raw_file

\* C6: when the stop branch has built its output path while a session
\* record is in place, the file name in the path is the one given on the
\* command line if one was given, and else the one of the record; and the
\* same for the destination.
C6_CommandLineWins ==
    pc["A"] = "ffmpeg" =>
        LET c == cli["A"]
            n == new_name["A"]
        IN  \A r \in info_file :
              /\ n.name = IF c.file_name # None THEN Path(c.file_name).v
                          ELSE Path(r.file_name).v
              /\ n.dir = IF c.destination # None THEN Path(c.destination).v
                         ELSE Path(r.destination).v

\* C7: when a stop invocation given neither --file_name nor --destination
\* calls ffmpeg while the record of a start invocation is in place, the
\* output path is D/N for the destination D and the file name N that start
\* invocation had resolved when it saved the record.
C7_RoundTrip ==
    (/\ pc["A"] = "ffmpeg"
     /\ cli["A"].file_name = None
     /\ cli["A"].destination = None) =>
        \A s \in saved_args :
            /\ new_name["A"] = JoinPath(Path(s.destination), Path(s.file_name))
            /\ converted["A"] = {new_name["A"]}

C7_Witness ==
    /\ pc["A"] = "ffmpeg"
    /\ cli["A"].file_name = None
    /\ cli["A"].destination = None
    /\ \E s \in saved_args : s.destination = Home /\ s.file_name = TimestampName
    /\ new_name["A"] = [dir |-> "/home/user", name |-> "audio_YYYY-MM-DD_HH-MM-SS.mp3"]

\* The exceptions of a failed launch of parec and of a failed write of the
\* session record.
LaunchError == {"TypeError", "FileNotFoundError: parec"}
StorageError == {"OSError"}

\* C8: an invocation that took the start branch and ended because parec
\* could not be launched or the session record could not be written leaves
\* no session record and no capture process.
C8_FailedStartLeavesNothing ==
    (Ended("A") /\ branch["A"] = "start"
                /\ err["A"] \in LaunchError \cup StorageError) =>
        (info_file = {} /\ procs = {})

\* C9: the probe's answer is empty or the identifier of one capture process,
\* and every identifier passed to os.kill is that of a capture process.
C9_ProbeNamesOneProcess ==
    \A i \in Invocations :
        /\ pid[i] = << >> \/ \E p \in PidPool : pid[i] = Digits(p)
        /\ signalled[i] \subseteq PidPool

\* C10: whatever the session record holds, an invocation reaches a branch:
\* the start branch iff the probe found nothing, the stop branch iff it
\* found a process.
C10_BranchFromProbeAlone ==
    Ended("A") =>
        /\ branch["A"] # "none"
        /\ branch["A"] = "start" <=> pid["A"] = << >>

\* C11: from every combination of raw buffer and session record present or
\* absent, clean_session leaves both absent, and a second clean_session
\* leaves them so.
C11_CleanSessionClears ==
    LET once  == clean_session(raw_file, info_file)
        twice == clean_session(once.raw, once.info)
    IN  /\ ~once.raw /\ once.info = {}
        /\ ~twice.raw /\ twice.info = {}

\* C12: a start invocation run with --env while the .env file sets
\* file_name, destination and format saves, for each of these given on the
\* command line, the command line's value (a format other than the parser's
\* default "mp3" was given on the command line).
C12_CommandLineOverEnv ==
    (/\ pc["A"] = "done" /\ branch["A"] = "start"
     /\ Truthy(cli["A"].env) /\ dotenv = SampleEnv) =>
        \A r \in info_file :
            /\ cli["A"].file_name # None => r.file_name = cli["A"].file_name
            /\ cli["A"].destination # None =>
                   r.destination = str(cli["A"].destination)
            /\ cli["A"].format # Str("mp3") => r.format = cli["A"].format

\* The format ffmpeg encodes to: convert_audio passes no output format, so
\* ffmpeg takes it from the extension of the output file name.
Extension(name) ==
    CASE name \in {"a.mp3", "e.mp3", "audio_YYYY-MM-DD_HH-MM-SS.mp3"} -> "mp3"
      [] OTHER -> ""
EncoderFormat(path) == Extension(path.name)

\* C13: the call made to ffmpeg on the stop branch encodes to the effective
\* format, args.format.
C13_EncodesToFormat ==
    pc["A"] = "ffmpeg" =>
        \A path \in converted["A"] : EncoderFormat(path) = args["A"].format.v

\* What the command line, the .env file when --env is given, and the
\* defaults of the start branch give, with no session record consulted.
ResolvedWithoutRecord(c, envfile) ==
    StartDefaults(parse_args([args |-> c, PID |-> None], TRUE, envfile, {}).args)

\* C14: the record a start invocation saves holds the file name, destination
\* and format given by the command line, the enabled .env file and the
\* defaults, whatever record an earlier session left on disk.
C14_StartIgnoresStaleRecord ==
    (pc["A"] = "done" /\ branch["A"] = "start") =>
        LET a == ResolvedWithoutRecord(cli["A"], dotenv)
        IN  \A r \in info_file :
              /\ r.file_name = a.file_name
              /\ r.destination = str(a.destination)
              /\ r.format = a.format

\* C15: two capture processes run at the same time only after invocations
\* overlapped, and the session record then names at most one of them.
C15_SecondCaptureNeedsOverlap ==
    Cardinality(procs) >= 2 =>
        /\ overlapped
        /\ Cardinality({p \in procs : \E r \in info_file : r.pid = p}) <= 1

\* Two overlapping invocations both took the start branch and completed it:
\* two capture processes write the raw buffer and the record names one.
C15_Witness ==
    /\ overlapped
    /\ \A i \in Invocations : pc[i] = "done" /\ branch[i] = "start"
    /\ pid_number["A"] # pid_number["B"]
    /\ procs = {pid_number["A"], pid_number["B"]}
    /\ raw_file
    /\ \E r \in info_file : r.json = "ok" /\ r.pid \in procs

ProcessNotFound == <<"error", "Process not found">>

\* C16: when the capture process named by the probe is gone before the
\* termination signal is delivered, stop_recording does not raise, and the
\* invocation still attempts the conversion and ends with the raw buffer and
\* the session record removed.
C16_GoneProcessStillStops ==
    ProcessNotFound \in log["A"] =>
        /\ err["A"] \notin {"ProcessLookupError", "CalledProcessError"}
        /\ Ended("A") => /\ converted["A"] # {}
                         /\ ~raw_file
                         /\ info_file = {}

Removed == (raw_file /\ ~raw_file') \/ (info_file # {} /\ info_file' = {})

\* C17: in every stop invocation the record is loaded before the termination
\* signal is sent, the signal is sent before the conversion starts, and the
\* raw buffer and the record are removed only by the step in which the
\* conversion started by that invocation returns.
C17_StopSequenceOrdered ==
    [][/\ \A i \in Invocations :
            /\ (pc[i] # "stop_recording" /\ pc'[i] = "stop_recording") =>
                   pc[i] = "parse_info"
            /\ (signalled'[i] \ signalled[i] # {}) => pc[i] = "stop_recording"
            /\ (converted'[i] \ converted[i] # {}) =>
                   (pc[i] = "convert" /\ signalled[i] # {})
       /\ Removed => \E i \in Invocations :
                        /\ pc[i] = "ffmpeg" /\ pc'[i] = "done"
                        /\ branch[i] = "stop"
                        /\ converted[i] # {} /\ signalled[i] # {}
      ]_vars

\* A stop invocation has run to its end: signal sent, conversion run, both
\* files removed.
C17_Witness ==
    \E i \in Invocations :
        /\ pc[i] = "done" /\ branch[i] = "stop"
        /\ signalled[i] # {} /\ converted[i] # {}
        /\ Len(notifications[i]) = 1
        /\ ~raw_file /\ info_file = {}

\* Keys as an environment file or a record may spell them, with the
\* configuration field each names, "" when it names none.
KeyField ==
    [FILE_NAME |-> "file_name", file_name |-> "file_name",
     DESTINATION |-> "destination", destination |-> "destination",
     FORMAT |-> "format", format |-> "format",
     COLOR |-> "", color |-> "", PID |-> "", pid |-> ""]

\* C18: a key that names no configuration field leaves every field of args
\* unchanged (and, unless it is "pid", the whole state); a key that names a
\* field in either case sets that field and nothing else; applying the
\* environment file raises nothing and leaves the fields it does not name.
C18_OnlyRecognizedKeysApply ==
    /\ LET st == [args |-> args["A"], PID |-> PID["A"]]
       IN  \A k \in DOMAIN KeyField, v \in {None, Str("x")} :
               LET r == add_argument(st, k, v, DOMAIN st.args)
               IN  IF KeyField[k] = ""
                   THEN /\ r.args = st.args
                        /\ k \notin {"PID", "pid"} => r = st
                   ELSE /\ r.args = [st.args EXCEPT ![KeyField[k]] = v]
                        /\ r.PID = st.PID
    /\ (pc["A"] = "probe" /\ Truthy(cli["A"].env)) =>
           /\ err["A"] = ""
           /\ DOMAIN args["A"] = DOMAIN cli["A"]
           /\ args["A"].env = cli["A"].env
           /\ args["A"].input = cli["A"].input
           /\ dotenv = EmptyEnv => args["A"] = cli["A"]

\* The environment file with a key that is no field has been applied.
C18_Witness ==
    /\ pc["A"] = "probe" /\ Truthy(cli["A"].env)
    /\ dotenv = SampleEnv
    /\ \E n \in 1..Len(dotenv) : dotenv[n][1] = "COLOR"
    /\ args["A"].file_name = Str("e.mp3")
    /\ args["A"].input = Str("mic0")

\* C19: whenever no invocation is running, the raw buffer exists iff the
\* session record exists.
C19_FilesTogetherAtBoundary ==
    ~Running("A") => (raw_file <=> info_file # {})

----------------------------------------------------------------------------
(* The toggle kept in use.  The script is run again whenever no invocation *)
(* is running, and an invocation that has begun runs to its end.           *)

SpecToggle ==
    /\ InitOverlap
    /\ [][NextOverlap]_vars
    /\ WF_vars(\E i \in Invocations : InvokeBound(i) \/ Step(i))

Idle == info_file = {} /\ ~raw_file /\ procs = {}

\* Errors that come from the machine, not from the script: a program that
\* cannot be launched, a file that cannot be written.
EnvironmentError ==
    {"FileNotFoundError: parec", "FileNotFoundError: notify-send",
     "FileNotFoundError: ffmpeg", "OSError"}

\* A step of the toggle in ordinary use: an invocation begins only when no
\* other is running, no step fails because of the machine, and a capture
\* process ends only when an invocation signals it.
ToggleStep ==
    /\ \A i \in Invocations :
        /\ (~Running(i) /\ Running(i)') =>
               \A j \in Invocations \ {i} : ~Running(j)
        /\ err'[i] # err[i] => err'[i] \notin EnvironmentError
    /\ procs' # procs => pc' # pc

\* C20: once invocations are made one at a time from the key binding and the
\* machine no longer fails, the system is Idle again and again, whatever state
\* the earlier invocations left.
C20_ToggleReturnsToIdle == (<>[][ToggleStep]_vars) => []<>Idle
====
